---- MODULE Spec2Model ----
\* A model of src/request.rs: the Request message, its type-erased body
\* reader, its length hint and its header convenience methods.
EXTENDS Integers, Sequences, FiniteSets, TLC

VARIABLES req, alive, handle, last, inst, tainted, delivered, eof

vars == <<req, alive, handle, last, inst, tainted, delivered, eof>>

---------------------------------------------------------------------------
\* Bounds of the model.

MaxStrLen == 1      \* longest string passed to set_body_string, in chars
MaxBytesLen == 2    \* longest byte sequence passed to set_body_bytes
MaxBuf == 2         \* largest buffer handed to poll_read
MaxSetLen == 1      \* set_len is called with 0..MaxSetLen (and with 42)

---------------------------------------------------------------------------
\* Generic helpers.

Min(a, b) == IF a < b THEN a ELSE b

SeqsUpTo(S, n) == UNION {[1..k -> S] : k \in 0..n}

IsPrefix(p, s) == Len(p) <= Len(s) /\ SubSeq(s, 1, Len(p)) = p

\* Option<T>: None or Some(v); `dflt` keeps the record shape uniform.
None(dflt) == [some |-> FALSE, val |-> dflt]
Some(v) == [some |-> TRUE, val |-> v]

---------------------------------------------------------------------------
\* Inputs.

Methods == {"GET", "POST"}
Urls == {"https://example.test/"}

\* Characters of the strings given to set_body_string, as code points:
\* 'h' (one UTF-8 byte) and U+00E9 (two UTF-8 bytes).
Chars == {104, 233}
Strings == SeqsUpTo(Chars, MaxStrLen)

Bytes == {0, 255}
ByteSeqs == SeqsUpTo(Bytes, MaxBytesLen)

LenValues == (0..MaxSetLen) \cup {42}

\* String::into_bytes: the UTF-8 encoding of the string.
Utf8(c) ==
    IF c < 128 THEN <<c>>
    ELSE IF c < 2048 THEN <<192 + (c \div 64), 128 + (c % 64)>>
    ELSE IF c < 65536
         THEN <<224 + (c \div 4096), 128 + ((c \div 64) % 64), 128 + (c % 64)>>
         ELSE <<240 + (c \div 262144), 128 + ((c \div 4096) % 64),
                128 + ((c \div 64) % 64), 128 + (c % 64)>>

RECURSIVE into_bytes(_)
into_bytes(s) == IF s = <<>> THEN <<>> ELSE Utf8(Head(s)) \o into_bytes(Tail(s))

\* char::len_utf8, and String::len: the length of the string in bytes.
LenUtf8(c) == IF c < 128 THEN 1 ELSE IF c < 2048 THEN 2 ELSE IF c < 65536 THEN 3 ELSE 4

RECURSIVE SumLenUtf8(_)
SumLenUtf8(s) == IF s = <<>> THEN 0 ELSE LenUtf8(Head(s)) + SumLenUtf8(Tail(s))

StringLenChars(s) == Len(s)

StringLen(s) == SumLenUtf8(s)

---------------------------------------------------------------------------
\* The body reader: Box<dyn BufRead + Unpin + Send>.  Three kinds of reader
\* are installed: io::empty(), io::Cursor over an owned buffer, and a
\* caller-supplied stream whose bytes arrive over time (`arrived` of them
\* are in its buffer so far).

Empty == [kind |-> "empty", data |-> <<>>, pos |-> 0, arrived |-> 0]

Cursor(bytes) == [kind |-> "cursor", data |-> bytes, pos |-> 0, arrived |-> Len(bytes)]

Stream(bytes) == [kind |-> "stream", data |-> bytes, pos |-> 0, arrived |-> 0]

NoReader == [kind |-> "moved", data |-> <<>>, pos |-> 0, arrived |-> 0]

\* The readers a caller passes to set_body_reader.
Readers == {Stream(<<>>), Stream(<<17, 34>>)}

Pending == [status |-> "pending", out |-> <<>>]
Ready(bytes) == [status |-> "ready", out |-> bytes]

\* BufRead::poll_fill_buf of the reader: the bytes buffered past the
\* position, an empty slice at end-of-stream, or Pending.
BodyFillBuf(b) ==
    IF b.kind = "empty" THEN Ready(<<>>)
    ELSE IF b.kind = "cursor"
         THEN Ready(SubSeq(b.data, Min(b.pos, Len(b.data)) + 1, Len(b.data)))
    ELSE IF b.arrived > b.pos THEN Ready(SubSeq(b.data, b.pos + 1, b.arrived))
    ELSE IF b.arrived = Len(b.data) THEN Ready(<<>>)
    ELSE Pending

\* BufRead::consume of the reader.
BodyConsume(b, amt) ==
    IF b.kind = "empty" THEN b ELSE [b EXCEPT !.pos = b.pos + amt]

\* Read::poll_read of the reader into a buffer of n bytes.
BodyPollRead(b, n) ==
    LET f == BodyFillBuf(b)
        k == Min(n, Len(f.out))
    IN  IF f.status = "pending"
        THEN [ret |-> Pending, body |-> b]
        ELSE [ret |-> Ready(SubSeq(f.out, 1, k)), body |-> BodyConsume(b, k)]

---------------------------------------------------------------------------
\* The header and MIME collaborators (crate::headers, crate::mime).

\* HeaderName { string, static_str }.
StaticName(s) == [string |-> "", static_str |-> Some(s)]
ParsedName(s) == [string |-> s, static_str |-> None("")]

\* HeaderName::as_str: the static string when there is one.
AsStr(name) == IF name.static_str.some THEN name.static_str.val ELSE name.string

Names == {StaticName("content-type"), ParsedName("content-type"), ParsedName("accept")}
Keys == {AsStr(n) : n \in Names}

\* mime::PLAIN and mime::BYTE_STREAM.
PLAIN == [essence |-> "text/plain", charset |-> Some("utf-8")]
BYTE_STREAM == [essence |-> "application/octet-stream", charset |-> None("")]
Mimes == {PLAIN, BYTE_STREAM}

\* impl From<Mime> for HeaderValue: the MIME type written out.
MimeToHeaderValue(mime) ==
    IF mime.essence = "text/plain" /\ mime.charset = Some("utf-8")
    THEN "text/plain; charset=utf-8"
    ELSE mime.essence

\* Values a caller passes to set_header (impl ToHeaderValues).
ValueLists == {<<"v1">>, <<"v2">>}

NoValues == None(<<>>)

\* Headers::new, Headers::get, Headers::insert.  `accept` is the collaborator's
\* verdict on the values: insert either stores them and returns the values
\* held before, or fails and stores nothing.
HeadersNew == [k \in Keys |-> NoValues]

HeadersGet(h, name) == h[AsStr(name)]

HeadersInsert(h, name, values, accept) ==
    IF accept
    THEN [ok |-> TRUE, err |-> "", prev |-> h[AsStr(name)],
          headers |-> [h EXCEPT ![AsStr(name)] = Some(values)]]
    ELSE [ok |-> FALSE, err |-> "HeaderError", prev |-> NoValues, headers |-> h]

---------------------------------------------------------------------------
\* Request.

newNoLength(method, url) ==
    [method |-> method, url |-> url, headers |-> HeadersNew,
     body_reader |-> Empty, length |-> None(0)]

new(method, url) ==
    [method |-> method, url |-> url, headers |-> HeadersNew,
     body_reader |-> Empty, length |-> Some(0)]

into_body_reader_rewound(r) == [r.body_reader EXCEPT !.pos = 0]

into_body_reader(r) == r.body_reader

\* A body installation that chains the new reader after the unread rest of
\* the old one.
set_body_reader_chained(r, body) ==
    [r EXCEPT !.body_reader =
        [body EXCEPT !.data = SubSeq(r.body_reader.data, r.body_reader.pos + 1,
                                     Len(r.body_reader.data)) \o body.data,
                     !.arrived = (Len(r.body_reader.data) - r.body_reader.pos)
                                 + body.arrived]]

set_body_reader_clears_len(r, body) ==
    [r EXCEPT !.body_reader = body, !.length = None(0)]

set_body_reader(r, body) == [r EXCEPT !.body_reader = body]

header(r, name) == HeadersGet(r.headers, name)

set_header_dropping_previous(r, name, values, accept) ==
    LET res == HeadersInsert(r.headers, name, values, accept)
    IN  [req |-> [r EXCEPT !.headers = res.headers],
         ok |-> res.ok, err |-> res.err, prev |-> NoValues]

\* Returns the request after the call and the io::Result handed back.
set_header(r, name, values, accept) ==
    LET res == HeadersInsert(r.headers, name, values, accept)
    IN  [req |-> [r EXCEPT !.headers = res.headers],
         ok |-> res.ok, err |-> res.err, prev |-> res.prev]

set_mime(r, mime, accept) ==
    LET header_ == StaticName("content-type")
        value == MimeToHeaderValue(mime)
    IN  set_header(r, header_, <<value>>, accept)

\* A set_body_string that sets the MIME first and installs nothing on failure.
set_body_string_all_or_nothing(r, string, accept) ==
    LET m == set_mime(r, PLAIN, accept)
    IN  IF m.ok
        THEN [req |-> set_body_reader([m.req EXCEPT !.length = Some(StringLen(string))],
                                      Cursor(into_bytes(string))),
              ok |-> TRUE, err |-> ""]
        ELSE [req |-> r, ok |-> FALSE, err |-> m.err]

set_body_string(r, string, accept) ==
    LET r1 == [r EXCEPT !.length = Some(StringLen(string))]
        reader == Cursor(into_bytes(string))
        r2 == set_body_reader(r1, reader)
        m == set_mime(r2, PLAIN, accept)
    IN  [req |-> m.req, ok |-> m.ok, err |-> m.err]

set_body_bytes_keeps_len(r, bytes, accept) ==
    LET r2 == set_body_reader(r, Cursor(bytes))
        m == set_mime(r2, BYTE_STREAM, accept)
    IN  [req |-> m.req, ok |-> m.ok, err |-> m.err]

set_body_bytes_as_text(r, bytes, accept) ==
    LET r1 == [r EXCEPT !.length = Some(Len(bytes))]
        r2 == set_body_reader(r1, Cursor(bytes))
        m == set_mime(r2, PLAIN, accept)
    IN  [req |-> m.req, ok |-> m.ok, err |-> m.err]

set_body_bytes(r, bytes, accept) ==
    LET owned == bytes
        r1 == [r EXCEPT !.length = Some(Len(owned))]
        reader == Cursor(owned)
        r2 == set_body_reader(r1, reader)
        m == set_mime(r2, BYTE_STREAM, accept)
    IN  [req |-> m.req, ok |-> m.ok, err |-> m.err]

len(r) == r.length

set_len(r, n) == [r EXCEPT !.length = Some(n)]

\* impl Read for Request and impl BufRead for Request: each returns the
\* request after the call and the Poll handed back.
poll_read(r, n) ==
    LET res == BodyPollRead(r.body_reader, n)
    IN  [req |-> [r EXCEPT !.body_reader = res.body], ret |-> res.ret]

poll_fill_buf_consuming(r) ==
    LET f == BodyFillBuf(r.body_reader)
    IN  [req |-> [r EXCEPT !.body_reader = BodyConsume(r.body_reader, Len(f.out))],
         ret |-> f]

poll_fill_buf(r) == [req |-> r, ret |-> BodyFillBuf(r.body_reader)]

consume(r, amt) == [r EXCEPT !.body_reader = BodyConsume(r.body_reader, amt)]

---------------------------------------------------------------------------
\* History of the run, kept for the properties below.
\*   last      the most recent call, its inputs and what it returned
\*   inst      the most recent body installation: the call, its argument,
\*             and whether it replaced a body installed by set_body_* that
\*             had been read in part
\*   tainted   set_len or set_body_reader was called since a constructor
\*             (new, set_body_string, set_body_bytes) last set the length
\*   delivered the bytes handed to the caller since the body was installed
\*             (since the hand-over, once into_body_reader was called)
\*   eof       the caller has seen end-of-stream since then

Call(op) ==
    [op |-> op, status |-> "none", err |-> "", n |-> 0, prev |-> NoValues,
     out |-> <<>>, name |-> ParsedName(""), values |-> <<>>, accept |-> TRUE]

Returned(op, res) ==
    [Call(op) EXCEPT !.status = IF res.ok THEN "ok" ELSE "err", !.err = res.err]

Polled(op, ret) == [Call(op) EXCEPT !.status = ret.status, !.out = ret.out]

\* What is left to read of a reader.
Rest(b) == SubSeq(b.data, Min(b.pos, Len(b.data)) + 1, Len(b.data))

Installed(op, arg, ok) ==
    [op |-> op, arg |-> arg, ok |-> ok,
     replaced |-> IF inst.op = "new" THEN "none"
                  ELSE IF delivered # <<>> /\ Rest(req.body_reader) # <<>> THEN "partly read"
                  ELSE "other"]

\* The bytes the installed body is to yield.
Expected == IF inst.op = "set_body_string" THEN into_bytes(inst.arg) ELSE inst.arg

SawEnd(n, ret) == n > 0 /\ ret.status = "ready" /\ ret.out = <<>>

---------------------------------------------------------------------------
\* The state after Request::new(method, url).

Init ==
    /\ \E method \in Methods, url \in Urls : req = new(method, url)
    /\ alive = TRUE
    /\ handle = NoReader
    /\ last = Call("new")
    /\ inst = [op |-> "new", arg |-> <<>>, ok |-> TRUE, replaced |-> "none"]
    /\ tainted = FALSE
    /\ delivered = <<>>
    /\ eof = FALSE

---------------------------------------------------------------------------
\* Calls on the Request.

SetBodyReader ==
    /\ alive
    /\ \E body \in Readers :
        /\ req' = set_body_reader(req, body)
        /\ inst' = Installed("set_body_reader", body.data, TRUE)
    /\ last' = Call("set_body_reader")
    /\ tainted' = TRUE
    /\ delivered' = <<>>
    /\ eof' = FALSE
    /\ UNCHANGED <<alive, handle>>

SetBodyString ==
    /\ alive
    /\ \E string \in Strings, accept \in BOOLEAN :
        LET res == set_body_string(req, string, accept)
        IN  /\ req' = res.req
            /\ last' = [Returned("set_body_string", res) EXCEPT !.accept = accept]
            /\ inst' = Installed("set_body_string", string, res.ok)
    /\ tainted' = FALSE
    /\ delivered' = <<>>
    /\ eof' = FALSE
    /\ UNCHANGED <<alive, handle>>

SetBodyBytes ==
    /\ alive
    /\ \E bytes \in ByteSeqs, accept \in BOOLEAN :
        LET res == set_body_bytes(req, bytes, accept)
        IN  /\ req' = res.req
            /\ last' = [Returned("set_body_bytes", res) EXCEPT !.accept = accept]
            /\ inst' = Installed("set_body_bytes", bytes, res.ok)
    /\ tainted' = FALSE
    /\ delivered' = <<>>
    /\ eof' = FALSE
    /\ UNCHANGED <<alive, handle>>

SetHeader ==
    /\ alive
    /\ \E name \in Names, values \in ValueLists, accept \in BOOLEAN :
        LET res == set_header(req, name, values, accept)
        IN  /\ req' = res.req
            /\ last' = [Returned("set_header", res) EXCEPT
                            !.prev = res.prev, !.name = name,
                            !.values = values, !.accept = accept]
    /\ UNCHANGED <<alive, handle, inst, tainted, delivered, eof>>

SetMime ==
    /\ alive
    /\ \E mime \in Mimes, accept \in BOOLEAN :
        LET res == set_mime(req, mime, accept)
        IN  /\ req' = res.req
            /\ last' = [Returned("set_mime", res) EXCEPT
                            !.prev = res.prev, !.name = StaticName("content-type"),
                            !.values = <<MimeToHeaderValue(mime)>>, !.accept = accept]
    /\ UNCHANGED <<alive, handle, inst, tainted, delivered, eof>>

SetLen ==
    /\ alive
    /\ \E n \in LenValues :
        /\ req' = set_len(req, n)
        /\ last' = [Call("set_len") EXCEPT !.n = n]
    /\ tainted' = TRUE
    /\ UNCHANGED <<alive, handle, inst, delivered, eof>>

PollRead ==
    /\ alive
    /\ \E n \in 0..MaxBuf :
        LET res == poll_read(req, n)
        IN  /\ req' = res.req
            /\ last' = [Polled("poll_read", res.ret) EXCEPT !.n = n]
            /\ delivered' = delivered \o res.ret.out
            /\ eof' = (eof \/ SawEnd(n, res.ret))
    /\ UNCHANGED <<alive, handle, inst, tainted>>

PollFillBuf ==
    /\ alive
    /\ LET res == poll_fill_buf(req)
       IN  /\ req' = res.req
           /\ last' = Polled("poll_fill_buf", res.ret)
           /\ eof' = (eof \/ SawEnd(1, res.ret))
    /\ UNCHANGED <<alive, handle, inst, tainted, delivered>>

\* consume(amt), with amt at most the bytes the last fill showed (the
\* BufRead contract).
Consume ==
    /\ alive
    /\ LET shown == BodyFillBuf(req.body_reader).out
       IN  \E amt \in 0..Len(shown) :
            /\ req' = consume(req, amt)
            /\ last' = [Call("consume") EXCEPT !.n = amt]
            /\ delivered' = delivered \o SubSeq(shown, 1, amt)
    /\ UNCHANGED <<alive, handle, inst, tainted, eof>>

IntoBodyReader ==
    /\ alive
    /\ alive' = FALSE
    /\ handle' = into_body_reader(req)
    /\ last' = Call("into_body_reader")
    /\ delivered' = <<>>
    /\ eof' = FALSE
    /\ UNCHANGED <<req, inst, tainted>>

---------------------------------------------------------------------------
\* Calls on the reader that into_body_reader handed over.

HandlePollRead ==
    /\ ~alive
    /\ \E n \in 0..MaxBuf :
        LET res == BodyPollRead(handle, n)
        IN  /\ handle' = res.body
            /\ last' = [Polled("handle.poll_read", res.ret) EXCEPT !.n = n]
            /\ delivered' = delivered \o res.ret.out
            /\ eof' = (eof \/ SawEnd(n, res.ret))
    /\ UNCHANGED <<req, alive, inst, tainted>>

HandlePollFillBuf ==
    /\ ~alive
    /\ LET ret == BodyFillBuf(handle)
       IN  /\ last' = Polled("handle.poll_fill_buf", ret)
           /\ eof' = (eof \/ SawEnd(1, ret))
    /\ UNCHANGED <<req, alive, handle, inst, tainted, delivered>>

HandleConsume ==
    /\ ~alive
    /\ LET shown == BodyFillBuf(handle).out
       IN  \E amt \in 0..Len(shown) :
            /\ handle' = BodyConsume(handle, amt)
            /\ last' = [Call("handle.consume") EXCEPT !.n = amt]
            /\ delivered' = delivered \o SubSeq(shown, 1, amt)
    /\ UNCHANGED <<req, alive, inst, tainted, eof>>

\* The source behind a caller-supplied stream delivers its next byte.
Arrive ==
    /\ IF alive
       THEN /\ req.body_reader.kind = "stream"
            /\ req.body_reader.arrived < Len(req.body_reader.data)
            /\ req' = [req EXCEPT !.body_reader.arrived = @ + 1]
            /\ UNCHANGED handle
       ELSE /\ handle.kind = "stream"
            /\ handle.arrived < Len(handle.data)
            /\ handle' = [handle EXCEPT !.arrived = @ + 1]
            /\ UNCHANGED req
    /\ last' = Call("arrive")
    /\ UNCHANGED <<alive, inst, tainted, delivered, eof>>

\* Every call.
Next ==
    \/ SetBodyReader
    \/ SetBodyString
    \/ SetBodyBytes
    \/ SetHeader
    \/ SetMime
    \/ SetLen
    \/ PollRead
    \/ PollFillBuf
    \/ Consume
    \/ IntoBodyReader
    \/ HandlePollRead
    \/ HandlePollFillBuf
    \/ HandleConsume
    \/ Arrive

Spec == Init /\ [][Next]_vars

\* The properties are checked under three restrictions of Next, each to the
\* calls its properties are about.

\* The body: installing it, reading it, handing it over.
NextBody ==
    \/ SetBodyReader
    \/ SetBodyString
    \/ SetBodyBytes
    \/ PollRead
    \/ PollFillBuf
    \/ Consume
    \/ IntoBodyReader
    \/ HandlePollRead
    \/ HandlePollFillBuf
    \/ HandleConsume
    \/ Arrive

SpecBody == Init /\ [][NextBody]_vars

\* The length hint, around body installations and reads.
NextHint ==
    \/ SetLen
    \/ SetBodyReader
    \/ SetBodyString
    \/ SetBodyBytes
    \/ PollFillBuf
    \/ Consume
    \/ Arrive

SpecHint == Init /\ [][NextHint]_vars

\* The headers, and every call that writes one.
NextHeaders ==
    \/ SetHeader
    \/ SetMime
    \/ SetBodyString
    \/ SetBodyBytes

SpecHeaders == Init /\ [][NextHeaders]_vars

---------------------------------------------------------------------------
\* Properties.

CONTENT_TYPE == StaticName("content-type")

\* The bytes delivered so far are the first bytes of `bytes`, all of them
\* once end-of-stream was seen, and what is left to read is the rest.
DrainsTo(bytes) ==
    /\ IsPrefix(delivered, bytes)
    /\ delivered \o Rest(req.body_reader) = bytes
    /\ eof => delivered = bytes
    /\ delivered = bytes => BodyFillBuf(req.body_reader) = Ready(<<>>)

\* C1: after set_body_string(s) returned Ok, len() is Some(number of UTF-8
\* bytes of s), content-type holds exactly the plain-text value, and the
\* Request's stream yields the UTF-8 bytes of s in order, then end-of-stream.
C1_SetBodyString ==
    (alive /\ inst.op = "set_body_string" /\ inst.ok) =>
        /\ last.op = "set_body_string" =>
            /\ len(req) = Some(Len(into_bytes(inst.arg)))
            /\ header(req, CONTENT_TYPE) = Some(<<"text/plain; charset=utf-8">>)
        /\ DrainsTo(into_bytes(inst.arg))

C1_Witness ==
    /\ alive /\ inst.op = "set_body_string" /\ inst.ok
    /\ inst.replaced # "none"
    /\ inst.arg = <<233>>
    /\ eof /\ delivered = <<195, 169>>

\* C2: after set_body_bytes(b) returned Ok, len() is Some(b.len()),
\* content-type holds the octet-stream value, and the Request's stream yields
\* b in order, then end-of-stream.
C2_SetBodyBytes ==
    (alive /\ inst.op = "set_body_bytes" /\ inst.ok) =>
        /\ last.op = "set_body_bytes" =>
            /\ len(req) = Some(Len(inst.arg))
            /\ header(req, CONTENT_TYPE) = Some(<<"application/octet-stream">>)
        /\ DrainsTo(inst.arg)

C2_Witness ==
    /\ alive /\ inst.op = "set_body_bytes" /\ inst.ok
    /\ inst.replaced # "none"
    /\ eof /\ delivered = <<0, 255>>

\* C3: a Request built by new has len() = Some(0) and no header, and every
\* fill or read of its body reports end-of-stream: ready, with no byte.
C3_New ==
    inst.op = "new" =>
        /\ last.op = "new" =>
            /\ len(req) = Some(0)
            /\ \A name \in Names : header(req, name) = NoValues
        /\ delivered = <<>>
        /\ last.op \in {"poll_fill_buf", "poll_read"} =>
            (last.status = "ready" /\ last.out = <<>>)

C3_Witness ==
    /\ inst.op = "new" /\ req.method = "POST"
    /\ last.op = "poll_read" /\ last.n > 0 /\ eof

\* C4: a body that replaces one installed by set_body_string, set_body_bytes
\* or set_body_reader yields exactly its own bytes from the first one, however
\* much of the replaced body had been read.
C4_Replace ==
    (alive /\ inst.replaced # "none") => DrainsTo(Expected)

C4_Witness ==
    /\ alive /\ inst.replaced = "partly read"
    /\ eof /\ delivered = Expected /\ Len(delivered) = 2

\* C5: as long as only new, set_body_string and set_body_bytes set the
\* length, len() is Some(n) with n the number of bytes the installed body
\* yields in all, before, during and after the draining.
C5_LenIsBodySize ==
    (alive /\ ~tainted) =>
        /\ len(req) = Some(Len(delivered) + Len(Rest(req.body_reader)))
        /\ eof => len(req) = Some(Len(delivered))

C5_Witness ==
    /\ alive /\ ~tainted /\ inst.replaced # "none"
    /\ eof /\ Len(delivered) = 2

\* C6: set_body_reader changes the body alone and leaves len(), the headers,
\* the method and the url as they were; set_len(n) makes len() Some(n) and
\* leaves the body, the headers, the method and the url as they were.
C6_Step ==
    /\ last'.op = "set_body_reader" =>
        /\ len(req') = len(req)
        /\ req'.headers = req.headers
        /\ req'.method = req.method /\ req'.url = req.url
        /\ req'.body_reader \in Readers
    /\ last'.op = "set_len" =>
        /\ len(req') = Some(last'.n)
        /\ req'.body_reader = req.body_reader
        /\ req'.headers = req.headers
        /\ req'.method = req.method /\ req'.url = req.url

C6_HintIndependent == [][C6_Step]_vars

C6_Witness ==
    /\ inst.op = "set_body_reader" /\ len(req) = Some(42)
    /\ eof /\ delivered = <<17, 34>>

\* C7: a new Request has no header; set_header(name, v) returns what
\* header(name) returned before it and makes header(name) return Some(v); and
\* header(name) changes only by a successful set_header of that name, or, for
\* content-type, a successful set_mime or set_body_*.
C7_Step ==
    /\ (last'.op = "set_header" /\ last'.status = "ok") =>
        /\ last'.prev = header(req, last'.name)
        /\ header(req', last'.name) = Some(last'.values)
    /\ \A name \in Names :
        header(req', name) # header(req, name) =>
            /\ last'.status = "ok"
            /\ \/ last'.op = "set_header" /\ AsStr(last'.name) = AsStr(name)
               \/ /\ last'.op \in {"set_mime", "set_body_string", "set_body_bytes"}
                  /\ AsStr(name) = "content-type"

C7_HeaderRoundTrip ==
    /\ \A name \in Names : header(req, name) = NoValues
    /\ [][C7_Step]_vars

C7_Witness ==
    /\ last.op = "set_header" /\ last.status = "ok"
    /\ last.prev = Some(<<"v1">>) /\ last.values = <<"v2">>
    /\ header(req, last.name) = Some(<<"v2">>)
    /\ header(req, ParsedName("accept")) # header(req, CONTENT_TYPE)

\* C8: the Request's fill returns what the body's fill returns and moves
\* nothing; consume(n) moves the body by n and nothing else does, poll_read
\* aside, which is the body's poll_read; so the bytes delivered, followed by
\* what is left to read, are always the body's bytes.
C8_Step ==
    /\ last'.op = "poll_fill_buf" =>
        /\ req' = req
        /\ delivered' = delivered
        /\ [status |-> last'.status, out |-> last'.out] = BodyFillBuf(req.body_reader)
    /\ last'.op = "consume" =>
        /\ req'.body_reader = BodyConsume(req.body_reader, last'.n)
        /\ Len(delivered') = Len(delivered) + last'.n
        /\ Len(Rest(req'.body_reader)) = Len(Rest(req.body_reader)) - last'.n
    /\ last'.op = "poll_read" =>
        /\ req'.body_reader = BodyPollRead(req.body_reader, last'.n).body
        /\ [status |-> last'.status, out |-> last'.out]
               = BodyPollRead(req.body_reader, last'.n).ret
    /\ (alive /\ req'.body_reader # req.body_reader) =>
        last'.op \in {"consume", "poll_read", "arrive", "set_body_reader",
                      "set_body_string", "set_body_bytes"}

C8_InOrderOnce == alive => DrainsTo(Expected)

C8_PassThrough == [][C8_Step]_vars /\ []C8_InOrderOnce

C8_Witness ==
    /\ alive /\ inst.op = "set_body_reader"
    /\ last.op = "poll_fill_buf" /\ last.status = "pending"
    /\ delivered = <<17>>

\* C9: the reader into_body_reader hands over yields what the Request would
\* have yielded in the state it was in, and once it is handed over no call on
\* the Request happens any more.
C9_Drain ==
    ~alive =>
        /\ handle.kind # "moved"
        /\ IsPrefix(delivered, Rest(req.body_reader))
        /\ delivered \o Rest(handle) = Rest(req.body_reader)
        /\ eof => delivered = Rest(req.body_reader)

C9_Step ==
    ~alive =>
        /\ ~alive'
        /\ req' = req
        /\ last'.op \in {"handle.poll_read", "handle.poll_fill_buf",
                         "handle.consume", "arrive"}

C9_IntoBodyReader == []C9_Drain /\ [][C9_Step]_vars

C9_Witness ==
    /\ ~alive /\ req.body_reader.pos = 1
    /\ eof /\ delivered = <<255>>

\* C10: set_body_string and set_body_bytes fail exactly when the insert of
\* content-type fails, with the collaborator's error; the failed call has
\* installed the new body and the new length and left the headers alone.
C10_Result ==
    /\ last.op \in {"set_body_string", "set_body_bytes"} =>
        /\ last.status = "err" <=> ~last.accept
        /\ last.status = "err" => (last.err = "HeaderError" /\ ~inst.ok)
        /\ last.status = "err" => len(req) = Some(Len(Expected))
    /\ (alive /\ inst.op \in {"set_body_string", "set_body_bytes"} /\ ~inst.ok) =>
        DrainsTo(Expected)

C10_Step ==
    (last'.op \in {"set_body_string", "set_body_bytes"} /\ last'.status = "err") =>
        req'.headers = req.headers

C10_FailureNotAtomic == []C10_Result /\ [][C10_Step]_vars

C10_Witness ==
    /\ alive /\ inst.op = "set_body_string" /\ ~inst.ok
    /\ header(req, CONTENT_TYPE) = Some(<<"application/octet-stream">>)
    /\ len(req) = Some(2)
    /\ eof /\ delivered = <<195, 169>>

====
